---- MODULE Spec2Model ----
(***************************************************************************)
(* Generator-based reactor of src/asyncio/async_echo_server.py (class      *)
(* Scheduler and the three event classes); generator_async.py holds the    *)
(* same scheduler under other names (_poll, new, read_wait, write_wait).   *)
(*                                                                         *)
(* A task is a Python generator.  One resumption (task.send) may call      *)
(* submit_task, and ends by yielding an event, yielding something that is  *)
(* not an event, returning (StopIteration) or raising another exception.   *)
(* select.select and the deferred socket calls are the environment.        *)
(*                                                                         *)
(* Variables that the program does not hold (history counters and sets)    *)
(* are marked "history"; no guard of the program reads them, except the    *)
(* caps that keep the model finite.                                        *)
(***************************************************************************)
EXTENDS Integers, Sequences, FiniteSets, TLC

\* ---- bounds of the model ----
MaxTasks   == 3      \* generators ever created
NumFds     == 2      \* distinct socket file descriptors
MaxResumes == 3      \* task.send calls in one behaviour
MaxClients == 2      \* echo workload: clients that connect
MaxInput   == 4      \* echo workload: steps of the clients (connect, send, close)
MaxShort   == 1      \* echo workload: send() calls that write only a part

Tasks == 1..MaxTasks
Fds   == 1..NumFds

VARIABLES
    pc,              \* where run() stands
    err,             \* the exception that left run(), "" when none
    _nrunning_tasks, \* Scheduler._nrunning_tasks
    _readyq,         \* Scheduler._readyq
    _read_waiting,   \* Scheduler._read_waiting : fileno -> (event, task)
    _write_waiting,  \* Scheduler._write_waiting : fileno -> (event, task)
    ready,           \* rset+wset of the current wake-up
    nrset,           \* len(rset)
    idx,             \* position in rset+wset, counted from 1
    ncreated,        \* history: generators created so far (ids 1..ncreated)
    finished,        \* history: tasks whose send raised StopIteration
    lost,            \* history: tasks whose table entry was overwritten
    lastEv,          \* history: id of the event each task yielded last
    lastReg,         \* history: id of the last event registered per direction and fd
    nevents,         \* history: events yielded so far
    nappended,       \* history: pairs appended to _readyq so far
    nresumed,        \* history: pairs taken from _readyq so far
    sent,            \* history: how the latest task.send ended
    gen,             \* echo workload: frame of each generator (task -> locals)
    backlog,         \* echo workload: connections the listening socket holds
    accepted,        \* echo workload: connections returned by accept()
    inbuf,           \* echo workload: bytes received by the kernel, not yet read
    outbuf,          \* echo workload: bytes written to each connection
    insent,          \* history: all bytes each client has sent
    eof,             \* echo workload: connections closed by the client
    closed,          \* echo workload: sockets closed by their handler
    resp,            \* history: per handler, the response being sent (buf),
                     \*          and sum of the byte counts it was resumed with
    nshort           \* history: send() calls so far that wrote only a part

vars == <<pc, err, _nrunning_tasks, _readyq, _read_waiting, _write_waiting,
          ready, nrset, idx, ncreated, finished, lost, lastEv, lastReg,
          nevents, nappended, nresumed, sent,
          gen, backlog, accepted, inbuf, outbuf, insent, eof, closed, resp, nshort>>

\* the variables of the echo workload; the scheduler alone never touches them
workload == <<gen, backlog, accepted, inbuf, outbuf, insent, eof, closed, resp, nshort>>

\* ---- values ----
None == [src |-> 0, kind |-> "None"]

EmptyTable == [f \in {} |-> None]

\* ConnectEvent / ReceiveEvent / SendEvent objects; id is the object's identity
Event(kind, fd, id) == [kind |-> kind, fd |-> fd, id |-> id]

EventKinds == {"Connect", "Receive", "Send"}

\* SendEvent.do_schedule calling waiting_for_read as its siblings do
Direction_read_only(event) == "r"

\* the do_schedule methods calling the other table's method
Direction_swapped(event) == IF event.kind = "Send" THEN "r" ELSE "w"

\* BaseEvent.do_schedule of each subclass: which table the event goes to
Direction(event) == IF event.kind = "Send" THEN "w" ELSE "r"

\* what happen_so_smooth hands to add_ready: accept() -> (sock, addr),
\* recv() -> bytes, send() -> int; src ties the value to the event completed
Result(event) ==
    [src |-> event.id,
     kind |-> CASE event.kind = "Connect" -> "conn"
                [] event.kind = "Receive" -> "bytes"
                [] OTHER -> "nbytes"]

\* which[fileno] in place of which.pop(fileno): the entry stays
Pop_kept(tbl, fileno) == tbl

\* dict.pop(key) as the remaining dict
Pop(tbl, fileno) == [k \in DOMAIN tbl \ {fileno} |-> tbl[k]]

\* tbl.setdefault(fileno, (event, task)): the first registration stays
waiting_for_setdefault(tbl, fileno, event, task) ==
    [k \in DOMAIN tbl \cup {fileno} |->
        IF k \in DOMAIN tbl THEN tbl[k] ELSE [event |-> event, task |-> task]]

\* Scheduler.waiting_for_read / waiting_for_write: tbl[fileno] = (event, task)
waiting_for(tbl, fileno, event, task) ==
    [k \in DOMAIN tbl \cup {fileno} |->
        IF k = fileno THEN [event |-> event, task |-> task] ELSE tbl[k]]

\* appendleft in place of append
add_ready_left(q, task, data, tk) == <<[task |-> task, data |-> data, tk |-> tk]>> \o q

\* Scheduler.add_ready: self._readyq.append((task, data)); tk is the
\* history number of the append
add_ready(q, task, data, tk) == Append(q, [task |-> task, data |-> data, tk |-> tk])

\* the orders in which select may list the ready descriptors of a set
Perms(S) == {s \in [1..Cardinality(S) -> S] :
                \A i, j \in 1..Cardinality(S) : i # j => s[i] # s[j]}

\* `i > len(rset)` in place of `i >= len(rset)`
Which_off_by_one(i, n) == IF i - 1 > n THEN "w" ELSE "r"

\* (self._read_waiting, self._write_waiting)[i >= len(rset)], i counted from 0
Which(i, n) == IF i - 1 >= n THEN "w" ELSE "r"

Init ==
    /\ pc = "main"
    /\ err = ""
    /\ _nrunning_tasks = 0
    /\ _readyq = <<>>
    /\ _read_waiting = EmptyTable
    /\ _write_waiting = EmptyTable
    /\ ready = <<>>
    /\ nrset = 0
    /\ idx = 0
    /\ ncreated = 0
    /\ finished = {}
    /\ lost = {}
    /\ lastEv = [t \in Tasks |-> 0]
    /\ lastReg = [d \in {"r", "w"} |-> [f \in Fds |-> 0]]
    /\ nevents = 0
    /\ nappended = 0
    /\ nresumed = 0
    /\ sent = ""
    /\ gen = <<>>
    /\ backlog = <<>>
    /\ accepted = {}
    /\ inbuf = <<>>
    /\ outbuf = <<>>
    /\ insent = <<>>
    /\ eof = {}
    /\ closed = {}
    /\ resp = <<>>
    /\ nshort = 0

\* Scheduler.submit_task called by the main program before run()
submit_task ==
    /\ pc = "main"
    /\ ncreated < MaxTasks
    /\ _readyq' = add_ready(_readyq, ncreated + 1, None, nappended + 1)
    /\ _nrunning_tasks' = _nrunning_tasks + 1
    /\ ncreated' = ncreated + 1
    /\ nappended' = nappended + 1
    /\ UNCHANGED <<pc, err, _read_waiting, _write_waiting, ready, nrset, idx,
                   finished, lost, lastEv, lastReg, nevents, nresumed, sent>>
    /\ UNCHANGED workload

\* the main program calls sched.run()
run ==
    /\ pc = "main"
    /\ pc' = "while"
    /\ UNCHANGED <<err, _nrunning_tasks, _readyq, _read_waiting, _write_waiting,
                   ready, nrset, idx, ncreated, finished, lost, lastEv, lastReg,
                   nevents, nappended, nresumed, sent>>
    /\ UNCHANGED workload

\* `while self._nrunning_tasks:` and `if self._readyq:` of run()
run_while ==
    /\ pc = "while"
    /\ pc' = IF _nrunning_tasks = 0 THEN "returned"
             ELSE IF _readyq # <<>> THEN "_run" ELSE "select"
    /\ UNCHANGED <<err, _nrunning_tasks, _readyq, _read_waiting, _write_waiting,
                   ready, nrset, idx, ncreated, finished, lost, lastEv, lastReg,
                   nevents, nappended, nresumed, sent>>
    /\ UNCHANGED workload

\* BaseEvent.do_schedule of the three subclasses: the tables after
\* scheduler.waiting_for_read / waiting_for_write(self.sock.fileno(), self, task)
do_schedule(event, task) ==
    IF Direction(event) = "r"
    THEN <<waiting_for(_read_waiting, event.fd, event, task), _write_waiting>>
    ELSE <<_read_waiting, waiting_for(_write_waiting, event.fd, event, task)>>

\* `except Exception:` in place of `except StopIteration:`
Caught_any(exc) == TRUE

\* `except StopIteration:` of _run: the only exception _run catches
Caught(exc) == exc = "StopIteration"

\* the handler without its decrement
task_done_forgotten(n) == n

\* `self._nrunning_tasks -= 1` of the StopIteration handler
task_done(n) == n - 1

\* `if self._readyq:` in place of `while self._readyq:`
after_run_once(q) == "select"

\* `while self._readyq:` of _run, and the fall-through of run() into select
after_run(q) == IF q # <<>> THEN "_run" ELSE "select"

\* the task waiting in the table of direction d under fd, as a set
Waiter(d, fd) ==
    LET tbl == IF d = "r" THEN _read_waiting ELSE _write_waiting
    IN  IF fd \in DOMAIN tbl THEN {tbl[fd].task} ELSE {}

\* what the resumed generator does with submit_task before it stops running:
\* the queue, the counter and the history counters after `spawn` submissions
Spawned(q, spawn) ==
    IF spawn THEN add_ready(q, ncreated + 1, None, nappended + 1) ELSE q

\* One iteration of `while self._readyq:` in _run, the task yielding an event
_run_event ==
    /\ pc = "_run"
    /\ _readyq # <<>>
    /\ nresumed < MaxResumes
    /\ LET task == Head(_readyq).task
       IN  /\ task \notin finished
           /\ \E spawn \in BOOLEAN, kind \in EventKinds, fd \in Fds :
                LET event == Event(kind, fd, nevents + 1)
                    tables == do_schedule(event, task)
                    q == Spawned(Tail(_readyq), spawn)
                    n == IF spawn THEN 1 ELSE 0
                IN  /\ spawn => ncreated < MaxTasks
                    /\ _readyq' = q
                    /\ _nrunning_tasks' = _nrunning_tasks + n
                    /\ ncreated' = ncreated + n
                    /\ nappended' = nappended + n
                    /\ _read_waiting' = tables[1]
                    /\ _write_waiting' = tables[2]
                    /\ lost' = lost \cup (Waiter(Direction(event), fd) \ {task})
                    /\ lastEv' = [lastEv EXCEPT ![task] = event.id]
                    /\ lastReg' = [lastReg EXCEPT ![Direction(event)][fd] = event.id]
                    /\ nevents' = nevents + 1
                    /\ nresumed' = nresumed + 1
                    /\ pc' = after_run(q)
    /\ sent' = "event"
    /\ UNCHANGED <<err, ready, nrset, idx, finished>>
    /\ UNCHANGED workload

\* One iteration of `while self._readyq:` in _run, task.send raising exc:
\* StopIteration (the generator returned, or had already returned) is caught
\* and counted; anything else leaves _run and run().  "RuntimeError" is the
\* `raise RuntimeError` for a yielded value that is not a BaseEvent,
\* "TaskError" an exception raised by the generator's own code.
_run_raise(exc) ==
    /\ pc = "_run"
    /\ _readyq # <<>>
    /\ nresumed < MaxResumes
    /\ LET task == Head(_readyq).task
       IN  /\ task \in finished => exc = "StopIteration"
           /\ \E spawn \in BOOLEAN :
                LET q == Spawned(Tail(_readyq), spawn)
                    n == IF spawn THEN 1 ELSE 0
                IN  /\ spawn => (ncreated < MaxTasks /\ task \notin finished)
                    /\ _readyq' = q
                    /\ ncreated' = ncreated + n
                    /\ nappended' = nappended + n
                    /\ nresumed' = nresumed + 1
                    /\ IF Caught(exc)
                       THEN /\ _nrunning_tasks' = task_done(_nrunning_tasks + n)
                            /\ pc' = after_run(q)
                            /\ err' = err
                       ELSE /\ _nrunning_tasks' = _nrunning_tasks + n
                            /\ pc' = "raised"
                            /\ err' = exc
                    /\ finished' = IF exc = "StopIteration"
                                   THEN finished \cup {task} ELSE finished
    /\ sent' = exc
    /\ UNCHANGED <<_read_waiting, _write_waiting, ready, nrset, idx, lost,
                   lastEv, lastReg, nevents>>
    /\ UNCHANGED workload

_run_StopIteration == _run_raise("StopIteration")

_run_RuntimeError == _run_raise("RuntimeError")

_run_TaskError == _run_raise("TaskError")

\* select.select(self._read_waiting, self._write_waiting, []) returning: the
\* ready descriptors are any subsets of the keys polled, not both empty, each
\* listed in any order
select ==
    /\ pc = "select"
    /\ \E rs \in SUBSET DOMAIN _read_waiting, ws \in SUBSET DOMAIN _write_waiting :
        /\ rs \cup ws # {}
        /\ \E rl \in Perms(rs), wl \in Perms(ws) :
            /\ ready' = rl \o wl
            /\ nrset' = Len(rl)
    /\ idx' = 1
    /\ pc' = "for"
    /\ UNCHANGED <<err, _nrunning_tasks, _readyq, _read_waiting, _write_waiting,
                   ncreated, finished, lost, lastEv, lastReg, nevents,
                   nappended, nresumed, sent>>
    /\ UNCHANGED workload

\* select.select([], [], []) without timeout: waits for ever on Unix (no step
\* of the model), raises OSError on Windows
select_empty ==
    /\ pc = "select"
    /\ DOMAIN _read_waiting = {}
    /\ DOMAIN _write_waiting = {}
    /\ pc' = "raised"
    /\ err' = "OSError"
    /\ UNCHANGED <<_nrunning_tasks, _readyq, _read_waiting, _write_waiting,
                   ready, nrset, idx, ncreated, finished, lost, lastEv, lastReg,
                   nevents, nappended, nresumed, sent>>
    /\ UNCHANGED workload

\* add_ready in a `finally:` clause: the task is queued even when the call raises
happen_so_smooth_finally(q, event, task, ok, tk) == add_ready(q, task, Result(event), tk)

\* ConnectEvent / ReceiveEvent / SendEvent.happen_so_smooth: the deferred
\* accept / recv / send, then scheduler.add_ready(task, res); when the socket
\* call raises (ok = FALSE) add_ready is not reached
happen_so_smooth(q, event, task, ok, tk) ==
    IF ok THEN add_ready(q, task, Result(event), tk) ELSE q

\* One iteration of `for i, fileno in enumerate(rset+wset):` in run();
\* ok says whether the socket call of the event succeeds
for_body(ok) ==
    /\ pc = "for"
    /\ idx <= Len(ready)
    /\ LET fileno == ready[idx]
           d == Which(idx, nrset)
           which == IF d = "r" THEN _read_waiting ELSE _write_waiting
       IN  IF fileno \notin DOMAIN which
           THEN \* which.pop(fileno) raises KeyError
                /\ pc' = "raised"
                /\ err' = "KeyError"
                /\ UNCHANGED <<_readyq, _read_waiting, _write_waiting, ready,
                               nrset, idx, nappended>>
           ELSE LET entry == which[fileno]
                    q == happen_so_smooth(_readyq, entry.event, entry.task, ok,
                                          nappended + 1)
                IN  /\ _read_waiting' = IF d = "r" THEN Pop(which, fileno)
                                        ELSE _read_waiting
                    /\ _write_waiting' = IF d = "w" THEN Pop(which, fileno)
                                         ELSE _write_waiting
                    /\ _readyq' = q
                    /\ nappended' = nappended + Len(q) - Len(_readyq)
                    /\ IF ok
                       THEN /\ err' = err
                            /\ IF idx = Len(ready)
                               THEN /\ pc' = "while"
                                    /\ ready' = <<>>
                                    /\ nrset' = 0
                                    /\ idx' = 0
                               ELSE /\ pc' = "for"
                                    /\ idx' = idx + 1
                                    /\ UNCHANGED <<ready, nrset>>
                       ELSE /\ pc' = "raised"
                            /\ err' = "OSError"
                            /\ UNCHANGED <<ready, nrset, idx>>
    /\ UNCHANGED <<_nrunning_tasks, ncreated, finished, lost, lastEv, lastReg,
                   nevents, nresumed, sent>>
    /\ UNCHANGED workload

for_completed == for_body(TRUE)

for_raised == for_body(FALSE)

Next ==
    \/ submit_task
    \/ run
    \/ run_while
    \/ _run_event
    \/ _run_StopIteration
    \/ _run_RuntimeError
    \/ _run_TaskError
    \/ select
    \/ select_empty
    \/ for_completed
    \/ for_raised

Spec == Init /\ [][Next]_vars

\* ---- the state space ----
TypeOK ==
    /\ pc \in {"main", "while", "_run", "select", "for", "returned", "raised"}
    /\ err \in {"", "RuntimeError", "TaskError", "OSError", "KeyError"}
    /\ _nrunning_tasks \in 0..MaxTasks
    /\ ncreated \in 0..MaxTasks
    /\ finished \subseteq 1..ncreated
    /\ lost \subseteq 1..ncreated
    /\ DOMAIN _read_waiting \subseteq Fds
    /\ DOMAIN _write_waiting \subseteq Fds
    /\ nresumed \in 0..MaxResumes
    /\ sent \in {"", "event", "StopIteration", "RuntimeError", "TaskError"}

\* ---- helpers of the properties ----
QueuedTasks == {_readyq[k].task : k \in 1..Len(_readyq)}

Unfinished == (1..ncreated) \ finished

\* once an exception has left run() nothing runs any more
RaisedIsFinal == pc = "raised" => UNCHANGED vars

\* ---- C1 ----
\* C1: run() returns exactly when the task count reaches 0: once the counter
\* is 0 the scheduler needs no further readiness event (it is not in select,
\* not in the completion loop and has not raised), and it has not returned
\* while the counter is nonzero.
C1_ReturnsExactlyAtZero ==
    /\ pc = "returned" => _nrunning_tasks = 0
    /\ _nrunning_tasks = 0 => pc \in {"main", "while", "returned"}

\* ---- C2 ----
\* C2: the task counter equals the number of tasks submitted (by the main
\* program or by a running task) that have not yet raised StopIteration.
C2_TaskCount == _nrunning_tasks = Cardinality(Unfinished)

\* a task submitted by a running task is counted while another has finished
C2_Witness ==
    /\ pc = "for"
    /\ finished # {}
    /\ ncreated = MaxTasks
    /\ _nrunning_tasks = 2
    /\ nappended > ncreated

\* ---- C3 ----
\* C3: select is entered only with an empty ready queue: every pair appended
\* so far, by submit_task (from the main program or from a task during the
\* drain) or by an event completion, has been resumed.
C3_SelectOnlyWhenDrained ==
    pc = "select" => (_readyq = <<>> /\ nresumed = nappended)

\* select is reached after resuming tasks queued by a completion and by a task
C3_Witness ==
    /\ pc = "select"
    /\ ncreated >= 2
    /\ nappended > ncreated
    /\ nresumed >= 3
    /\ sent = "event"

\* ---- C4 ----
\* A completion step for the descriptor at position idx of the wake-up
\* removes exactly that descriptor's entry from the table it was reported
\* for (read for the first nrset positions, write for the others), leaves
\* every other entry and the other table as they were, appends exactly one
\* pair (the entry's task, the result of the entry's event) to the ready
\* queue, and moves on to the next position; the loop ends only after the
\* last position.
C4_Completed(tbl, tblNew, other, otherNew) ==
    LET fileno == ready[idx]
    IN  /\ fileno \in DOMAIN tbl
        /\ DOMAIN tblNew = DOMAIN tbl \ {fileno}
        /\ \A k \in DOMAIN tblNew : tblNew[k] = tbl[k]
        /\ otherNew = other
        /\ Len(_readyq') = Len(_readyq) + 1
        /\ SubSeq(_readyq', 1, Len(_readyq)) = _readyq
        /\ _readyq'[Len(_readyq')].task = tbl[fileno].task
        /\ _readyq'[Len(_readyq')].data.src = tbl[fileno].event.id
        /\ tbl[fileno].event.fd = fileno

C4_CompletionStep ==
    (pc = "for" /\ pc' \in {"for", "while"}) =>
        /\ IF idx <= nrset
           THEN C4_Completed(_read_waiting, _read_waiting', _write_waiting, _write_waiting')
           ELSE C4_Completed(_write_waiting, _write_waiting', _read_waiting, _read_waiting')
        /\ pc' = "for" => (idx' = idx + 1 /\ ready' = ready /\ nrset' = nrset)
        /\ pc' = "while" => idx = Len(ready)

\* C4: every completion step of a wake-up pops the reported descriptor's entry
\* from the table it was reported for, completes that entry's event once and
\* appends one (task, result) pair; entries not reported stay unchanged.
C4_CompletionPhase == [][C4_CompletionStep]_vars

\* the second descriptor of a wake-up that reported a read and a write
\* descriptor is about to be completed, the first one has been
C4_Witness ==
    /\ pc = "for"
    /\ idx = 2
    /\ nrset = 1
    /\ Len(ready) = 2
    /\ Len(_readyq) >= 1
    /\ _readyq[Len(_readyq)].data.kind # "None"

\* ---- C5 ----
\* When a resumed task yields an event, a Connect or Receive event is put
\* in the read table and a Send event in the write table, under the event's
\* descriptor and paired with the task that was resumed; every other entry of
\* that table and the whole other table stay as they were.
C5_Registered(kinds, tbl, tblNew, other, otherNew) ==
    \E f \in DOMAIN tblNew :
        /\ tblNew[f].event.id = nevents'
        /\ tblNew[f].event.kind \in kinds
        /\ tblNew[f].event.fd = f
        /\ tblNew[f].task = Head(_readyq).task
        /\ DOMAIN tblNew = DOMAIN tbl \cup {f}
        /\ \A k \in DOMAIN tbl \ {f} : tblNew[k] = tbl[k]
        /\ otherNew = other

C5_YieldStep ==
    (sent' = "event" /\ nresumed' = nresumed + 1) =>
        /\ nevents' = nevents + 1
        /\ \/ C5_Registered({"Connect", "Receive"}, _read_waiting, _read_waiting',
                            _write_waiting, _write_waiting')
           \/ C5_Registered({"Send"}, _write_waiting, _write_waiting',
                            _read_waiting, _read_waiting')

\* C5: a yielded Connect or Receive event is registered only in the read
\* table, a Send event only in the write table, under the event's descriptor
\* and paired with the yielding task; the other table is not modified.
C5_DispatchByKind == [][C5_YieldStep]_vars

\* all three kinds of event are registered at once
C5_Witness ==
    /\ \E f \in DOMAIN _write_waiting : _write_waiting[f].event.kind = "Send"
    /\ \E f \in DOMAIN _read_waiting : _read_waiting[f].event.kind = "Connect"
    /\ \E f \in DOMAIN _read_waiting : _read_waiting[f].event.kind = "Receive"

\* ---- C6 ----
\* C6: the ready queue is served first in, first out: the pairs waiting in the
\* queue are, from the head on, exactly the appends numbered nresumed + 1,
\* nresumed + 2, ... nappended, so the next pair resumed is always the oldest
\* append not yet resumed, and none is skipped, duplicated or reordered.
C6_FIFO ==
    /\ nappended = nresumed + Len(_readyq)
    /\ \A k \in 1..Len(_readyq) : _readyq[k].tk = nresumed + k

\* after some resumptions the queue holds a pair appended by submit_task
\* behind a pair appended by an event completion
C6_Witness ==
    /\ nresumed >= 2
    /\ Len(_readyq) >= 2
    /\ \E j, k \in 1..Len(_readyq) :
        /\ j < k
        /\ _readyq[j].data.kind # "None"
        /\ _readyq[k].data.kind = "None"

\* ---- C7 ----
\* C7: the value a task is resumed with is the result of the event that this
\* task yielded last (no value on its first resumption, before any yield), and
\* a task registered in a table waits there with the event it yielded last:
\* one event per suspension, answered by that event's own result.
C7_ResumePairing ==
    /\ \A k \in 1..Len(_readyq) :
        /\ _readyq[k].data.src = lastEv[_readyq[k].task]
        /\ _readyq[k].data = None <=> lastEv[_readyq[k].task] = 0
    /\ \A f \in DOMAIN _read_waiting :
        /\ lastEv[_read_waiting[f].task] = _read_waiting[f].event.id
        /\ _read_waiting[f].task \notin QueuedTasks
    /\ \A f \in DOMAIN _write_waiting :
        /\ lastEv[_write_waiting[f].task] = _write_waiting[f].event.id
        /\ _write_waiting[f].task \notin QueuedTasks

\* two tasks are queued at once, each with the result of its own latest event
C7_Witness ==
    /\ Len(_readyq) = 2
    /\ _readyq[1].task # _readyq[2].task
    /\ _readyq[1].data.kind # "None"
    /\ _readyq[2].data.kind # "None"
    /\ nevents >= 3

\* ---- C8 ----
\* A resumption that yields something other than an event
C8_NonEventStep ==
    (sent' = "RuntimeError" /\ nresumed' = nresumed + 1) =>
        /\ pc' = "raised"
        /\ err' = "RuntimeError"
        /\ _read_waiting' = _read_waiting
        /\ _write_waiting' = _write_waiting
        /\ _nrunning_tasks' = _nrunning_tasks + (ncreated' - ncreated)
        /\ finished' = finished

\* C8: when a resumed task yields a value that is not an event, RuntimeError
\* leaves _run and run() (it is not taken for the task's completion), no table
\* entry is made, the task count is not decremented, and afterwards no task is
\* resumed and nothing else changes.
C8_ContractViolationFatal == [][C8_NonEventStep /\ RaisedIsFinal]_vars

\* run() was left by the RuntimeError while other tasks were queued and waiting
C8_Witness ==
    /\ pc = "raised"
    /\ err = "RuntimeError"
    /\ _readyq # <<>>
    /\ DOMAIN _read_waiting \cup DOMAIN _write_waiting # {}
    /\ _nrunning_tasks = Cardinality(Unfinished)
    /\ _nrunning_tasks >= 3

\* ---- C9 ----
\* the descriptors of the wake-up after position idx still have their entries
C9_RestPending ==
    \A j \in (idx + 1)..Len(ready) :
        IF j <= nrset THEN ready[j] \in DOMAIN _read_waiting
                      ELSE ready[j] \in DOMAIN _write_waiting

\* A completion step whose socket call raises
C9_FailedStep ==
    (pc = "for" /\ pc' = "raised" /\ err' = "OSError") =>
        /\ _readyq' = _readyq
        /\ _nrunning_tasks' = _nrunning_tasks
        /\ finished' = finished
        /\ ready' = ready /\ idx' = idx /\ nrset' = nrset
        /\ C9_RestPending'

\* C9: when the deferred accept/recv/send of a ready event raises, the error
\* leaves run() for good: the waiting task is not put back on the ready queue
\* and not counted as completed, the descriptors of the wake-up that follow
\* keep their entries uncompleted, and nothing runs afterwards.
C9_IOFailureNotIsolated == [][C9_FailedStep /\ RaisedIsFinal]_vars

\* the first of two ready descriptors failed: its task is in no table and not
\* queued, still counted, and the second descriptor is left pending
C9_Witness ==
    /\ pc = "raised"
    /\ err = "OSError"
    /\ Len(ready) = 2
    /\ idx = 1
    /\ C9_RestPending
    /\ _readyq = <<>>
    /\ _nrunning_tasks = 2
    /\ Cardinality(DOMAIN _read_waiting) + Cardinality(DOMAIN _write_waiting) = 1

\* ---- C10 ----
\* C10: each table holds one (event, task) pair per descriptor, and it is the
\* pair of the latest registration for that descriptor and direction; a task
\* whose entry was overwritten by a later registration is in no table, is not
\* on the ready queue (so it is never resumed) and never completes.
C10_OneInterestPerFd ==
    /\ \A f \in DOMAIN _read_waiting : _read_waiting[f].event.id = lastReg["r"][f]
    /\ \A f \in DOMAIN _write_waiting : _write_waiting[f].event.id = lastReg["w"][f]
    /\ \A t \in lost :
        /\ t \notin QueuedTasks
        /\ t \notin finished
        /\ \A f \in DOMAIN _read_waiting : _read_waiting[f].task # t
        /\ \A f \in DOMAIN _write_waiting : _write_waiting[f].task # t

\* the second of two registrations for one descriptor and direction has been
\* completed and its task queued; the first registrant is lost
C10_Witness ==
    /\ nevents = 2
    /\ lost # {}
    /\ \E k \in 1..Len(_readyq) :
        /\ _readyq[k].data.src = 2
        /\ _readyq[k].task \notin lost
    /\ DOMAIN _read_waiting \cup DOMAIN _write_waiting = {}

\* ---- C17 ----
\* A step in which a task is submitted: by the main program (nothing else
\* happens) or by the task being resumed (whose own pair has left the head)
C17_SubmitStep ==
    (ncreated' # ncreated) =>
        LET before == IF pc = "main" THEN _readyq ELSE Tail(_readyq)
            done == IF finished' # finished THEN 1 ELSE 0
        IN  /\ ncreated' = ncreated + 1
            /\ _readyq' = Append(before, [task |-> ncreated', data |-> None,
                                          tk |-> nappended'])
            /\ _nrunning_tasks' = _nrunning_tasks + 1 - done
            /\ pc = "main" => /\ _read_waiting' = _read_waiting
                              /\ _write_waiting' = _write_waiting
                              /\ _nrunning_tasks' = _nrunning_tasks + 1

\* a task that has not yielded yet is queued with no value
C17_Primed ==
    \A k \in 1..Len(_readyq) :
        lastEv[_readyq[k].task] = 0 => _readyq[k].data = None

\* C17: submit_task appends exactly one pair (task, None) at the tail of the
\* ready queue and adds 1 to the task count, leaving both tables and the pairs
\* already queued as they were; so every task's first resumption has no value.
C17_SubmitFrame == [][C17_SubmitStep /\ C17_Primed']_vars

\* a task submitted by a running task waits at the tail behind a completed one
C17_Witness ==
    /\ pc = "_run"
    /\ Len(_readyq) >= 2
    /\ _readyq[Len(_readyq)].data = None
    /\ _readyq[Len(_readyq)].task = ncreated
    /\ _readyq[1].data.kind # "None"
    /\ nresumed >= 1

\* ---- C18 ----
\* the number of places (queue positions and table entries) that hold task t
Places(t) ==
    Cardinality({k \in 1..Len(_readyq) : _readyq[k].task = t})
    + Cardinality({f \in DOMAIN _read_waiting : _read_waiting[f].task = t})
    + Cardinality({f \in DOMAIN _write_waiting : _write_waiting[f].task = t})

\* C18: as long as no registration has overwritten another and run() has not
\* been left by an exception, every submitted task that has not completed is
\* in exactly one place (once on the ready queue or in one entry of one
\* table), a completed task is in none, and with a task count of 0 the ready
\* queue and both tables are empty.
C18_TaskLocation ==
    (lost = {} /\ pc # "raised") =>
        /\ \A t \in 1..ncreated : Places(t) = IF t \in finished THEN 0 ELSE 1
        /\ _nrunning_tasks = 0 =>
            /\ _readyq = <<>>
            /\ DOMAIN _read_waiting = {}
            /\ DOMAIN _write_waiting = {}

\* one task queued, one waiting to read, one completed, nothing overwritten
C18_Witness ==
    /\ lost = {}
    /\ pc = "while"
    /\ Len(_readyq) = 1
    /\ Cardinality(DOMAIN _read_waiting) = 1
    /\ Cardinality(finished) = 1
    /\ ncreated = 3

\* ---- C19 ----
\* C19: which.pop(fileno) never raises KeyError: during the completion loop
\* every descriptor of the wake-up not yet completed is a key of the table it
\* was reported for, the completions before it having only appended to the
\* ready queue.
C19_LookupNeverFails ==
    /\ err # "KeyError"
    /\ pc = "for" =>
        \A j \in idx..Len(ready) :
            IF j <= nrset THEN ready[j] \in DOMAIN _read_waiting
                          ELSE ready[j] \in DOMAIN _write_waiting

\* the last of three reported descriptors is about to be popped
C19_Witness ==
    /\ pc = "for"
    /\ Len(ready) = 3
    /\ idx = 3
    /\ Len(_readyq) = 2

\* ---- C20 ----
\* A completion step for a descriptor that the wake-up lists twice
C20_Completed(tbl, tblNew, other, otherNew, kinds) ==
    LET fileno == ready[idx]
        last == _readyq'[Len(_readyq')]
    IN  /\ fileno \in DOMAIN tbl
        /\ fileno \notin DOMAIN tblNew
        /\ otherNew = other
        /\ Len(_readyq') = Len(_readyq) + 1
        /\ last.task = tbl[fileno].task
        /\ last.data.src = tbl[fileno].event.id
        /\ last.data.kind \in kinds

C20_BothDirectionsStep ==
    (pc = "for" /\ \E j \in 1..Len(ready) : j # idx /\ ready[j] = ready[idx]) =>
        /\ err' # "KeyError"
        /\ err' = "" =>
            IF idx <= nrset
            THEN C20_Completed(_read_waiting, _read_waiting',
                               _write_waiting, _write_waiting', {"conn", "bytes"})
            ELSE C20_Completed(_write_waiting, _write_waiting',
                               _read_waiting, _read_waiting', {"nbytes"})

\* C20: when one wake-up reports a descriptor as readable and as writable,
\* its occurrence among the first len(rset) positions pops the read entry and
\* the later occurrence pops the write entry; each waiting task is queued once
\* with the result of its own event and no entry is popped twice.
C20_BothDirections == [][C20_BothDirectionsStep]_vars

\* both waiters of one descriptor were queued by one wake-up, reader first
C20_Witness ==
    /\ pc = "while"
    /\ Len(_readyq) = 2
    /\ _readyq[1].task # _readyq[2].task
    /\ \E f \in Fds :
        /\ _readyq[1].data.src = lastReg["r"][f]
        /\ _readyq[2].data.src = lastReg["w"][f]
        /\ _readyq[1].data.kind \in {"conn", "bytes"}
        /\ _readyq[2].data.kind = "nbytes"
        /\ f \notin DOMAIN _read_waiting
        /\ f \notin DOMAIN _write_waiting

\* ======================================================================
\* The echo workload: echo_server and client_handler run by the scheduler,
\* the clients and the kernel's socket buffers being the environment.  The
\* listening socket has descriptor ListenFd, the connection of client c has
\* descriptor c.  Socket calls of a descriptor that select reported ready
\* return normally here (their raising is covered by for_raised).  The
\* history counters of the scheduler (nevents, nappended, nresumed, lastEv,
\* lastReg) are not kept here: events and queued pairs carry the number 0.
\* ======================================================================
ListenFd == 0

Clients == 1..MaxClients

EchoFds == {ListenFd} \cup Clients

EchoTasks == 1..(MaxClients + 1)

\* the byte values a client sends: b'\n' and one other
Bytes == {"x", "\n"}

\* b'Get: '
Prefix == <<"G", "e", "t", ":", " ">>

\* the events with their argument: nbytes of ReceiveEvent, data of SendEvent
EchoEvent(kind, fd, id, arg) == [kind |-> kind, fd |-> fd, id |-> id, arg |-> arg]

\* the value handed to add_ready: Result with what the socket call returned
EchoResult(event, val) ==
    [src |-> Result(event).src, kind |-> Result(event).kind, val |-> val]

\* every handler built on the socket of the first connection
Frame_first(fn, sock) ==
    [fn |-> fn, at |-> "start", sock |-> IF fn = "client_handler" THEN 1 ELSE sock,
     chars |-> <<>>, line |-> <<>>]

\* a generator object that has not run yet

Frame(fn, sock) ==
    [fn |-> fn, at |-> "start", sock |-> sock, chars |-> <<>>, line |-> <<>>]

\* b''.join(chars)
RECURSIVE join(_)
join(chars) == IF chars = <<>> THEN <<>> ELSE Head(chars) \o join(Tail(chars))

\* a handler that takes every send for a complete one
Slice_all(line, n) == <<>>

\* line[n:]
Slice(line, n) == SubSeq(line, n + 1, Len(line))

\* `if c == b'\n': break` ahead of chars.append(c)
readline_strip(chars, c) ==
    IF c = <<>> \/ c = <<"\n">> THEN [returns |-> TRUE, chars |-> chars]
    ELSE [returns |-> FALSE, chars |-> Append(chars, c)]

\* `break` at the end of the stream throwing the bytes read so far away
readline_eof_empty(chars, c) ==
    IF c = <<>> THEN [returns |-> TRUE, chars |-> <<>>]
    ELSE IF c = <<"\n">> THEN [returns |-> TRUE, chars |-> Append(chars, c)]
    ELSE [returns |-> FALSE, chars |-> Append(chars, c)]

\* readline resumed at `c = yield client.recv(1)` with c: whether it returns,
\* and its list chars
readline(chars, c) ==
    IF c = <<>> THEN [returns |-> TRUE, chars |-> chars]
    ELSE IF c = <<"\n">> THEN [returns |-> TRUE, chars |-> Append(chars, c)]
    ELSE [returns |-> FALSE, chars |-> Append(chars, c)]

\* a hand-written delegation loop that keeps the value last sent in
yield_from_sent(r, c) == c

\* `line = yield from readline(client)`: the value of the expression once
\* readline has returned is readline's return value
yield_from(r, c) == join(r.chars)

\* what one task.send(v) does to a generator: its frame afterwards and how it
\* ends, by yielding an event (kind, arg) or by returning; submit is the
\* connection of the client_handler it submitted, 0 for none
Yields(g, kind, arg) ==
    [g |-> g, out |-> "event", kind |-> kind, arg |-> arg, submit |-> 0]

Returns(g) ==
    [g |-> g, out |-> "StopIteration", kind |-> "", arg |-> 0, submit |-> 0]

\* echo_server: `client, addr = yield sock.accept()` in `while True`, then
\* scheduler.submit_task(client_handler(client))
echo_server_send(g, v) ==
    IF g.at = "start"
    THEN Yields([g EXCEPT !.at = "accept"], "Connect", 0)
    ELSE [Yields(g, "Connect", 0) EXCEPT !.submit = v.val]

\* client_handler: the loop around `line = yield from readline(client)` and
\* `n = yield client.send(line)`
client_handler_send(g, v) ==
    LET again == Yields([g EXCEPT !.at = "recv", !.chars = <<>>, !.line = <<>>],
                        "Receive", 1)
    IN  CASE g.at = "start" -> again
          [] g.at = "recv" ->
                LET r == readline(g.chars, v.val)
                    line == yield_from(r, v.val)
                IN  IF ~r.returns
                    THEN Yields([g EXCEPT !.chars = r.chars], "Receive", 1)
                    ELSE IF line = <<>>
                    THEN Returns([g EXCEPT !.at = "returned", !.chars = <<>>])
                    ELSE Yields([g EXCEPT !.at = "send", !.chars = <<>>,
                                          !.line = Prefix \o line],
                                "Send", Prefix \o line)
          [] g.at = "send" ->
                LET rest == Slice(g.line, v.val)
                IN  IF rest # <<>>
                    THEN Yields([g EXCEPT !.line = rest], "Send", rest)
                    ELSE again
          [] OTHER -> Returns(g)

generator_send(g, v) ==
    IF g.fn = "echo_server" THEN echo_server_send(g, v)
    ELSE client_handler_send(g, v)

InitEcho ==
    /\ pc = "main"
    /\ err = ""
    /\ _nrunning_tasks = 0
    /\ _readyq = <<>>
    /\ _read_waiting = EmptyTable
    /\ _write_waiting = EmptyTable
    /\ ready = <<>>
    /\ nrset = 0
    /\ idx = 0
    /\ ncreated = 0
    /\ finished = {}
    /\ lost = {}
    /\ lastEv = [t \in EchoTasks |-> 0]
    /\ lastReg = [d \in {"r", "w"} |-> [f \in EchoFds |-> 0]]
    /\ nevents = 0
    /\ nappended = 0
    /\ nresumed = 0
    /\ sent = ""
    /\ gen = <<>>
    /\ backlog = <<>>
    /\ accepted = {}
    /\ inbuf = [c \in Clients |-> <<>>]
    /\ outbuf = [c \in Clients |-> <<>>]
    /\ insent = [c \in Clients |-> <<>>]
    /\ eof = {}
    /\ closed = {}
    /\ resp = [t \in EchoTasks |-> [buf |-> <<>>, sum |-> 0, writes |-> 0]]
    /\ nshort = 0

\* __main__: sched.submit_task(echo_server(('', 8000), sched)); sched.run()
echo_main ==
    /\ pc = "main"
    /\ _readyq' = add_ready(_readyq, ncreated + 1, None, 0)
    /\ _nrunning_tasks' = _nrunning_tasks + 1
    /\ ncreated' = ncreated + 1
    /\ gen' = Append(gen, Frame("echo_server", ListenFd))
    /\ pc' = "while"
    /\ UNCHANGED <<err, _read_waiting, _write_waiting, ready, nrset, idx,
                   finished, lost, lastEv, lastReg, nevents, nappended, nresumed,
                   sent, backlog, accepted, inbuf, outbuf, insent, eof, closed, resp, nshort>>

\* ---- the clients ----
\* The program looks at the sockets only in select and when it completes a
\* descriptor that select reported, whose call then finds what select saw; a
\* client's step during the drain or the completion loop has the effect it
\* has at the next select, where the steps of the clients are taken.
\* the number of bytes clients 1..c have sent
RECURSIVE TotalSent(_)
TotalSent(c) == IF c = 0 THEN 0 ELSE Len(insent[c]) + TotalSent(c - 1)

\* connections made, bytes sent and streams closed by the clients so far
ClientSteps ==
    Len(backlog) + Cardinality(accepted) + TotalSent(MaxClients) + Cardinality(eof)

Connected(c) == c \in accepted \/ \E k \in 1..Len(backlog) : backlog[k] = c

\* a client connects; the kernel queues the connection on the listening socket
client_connect ==
    /\ pc = "select"
    /\ Len(backlog) + Cardinality(accepted) < MaxClients
    /\ ClientSteps < MaxInput
    /\ backlog' = Append(backlog, Len(backlog) + Cardinality(accepted) + 1)
    /\ UNCHANGED <<pc, err, _nrunning_tasks, _readyq, _read_waiting,
                   _write_waiting, ready, nrset, idx, ncreated, finished, lost,
                   lastEv, lastReg, nevents, nappended, nresumed, sent,
                   gen, accepted, inbuf, outbuf, insent, eof, closed, resp, nshort>>

\* a connected client sends one byte
client_send ==
    \E c \in Clients, b \in Bytes :
        /\ pc = "select"
        /\ Connected(c)
        /\ c \notin eof
        /\ ClientSteps < MaxInput
        /\ inbuf' = [inbuf EXCEPT ![c] = Append(@, b)]
        /\ insent' = [insent EXCEPT ![c] = Append(@, b)]
        /\ UNCHANGED <<pc, err, _nrunning_tasks, _readyq, _read_waiting,
                       _write_waiting, ready, nrset, idx, ncreated, finished,
                       lost, lastEv, lastReg, nevents, nappended, nresumed,
                       sent, gen, backlog, accepted, outbuf, eof, closed, resp, nshort>>

\* a connected client shuts down its sending side: recv then returns b''
client_close ==
    \E c \in Clients :
        /\ pc = "select"
        /\ Connected(c)
        /\ c \notin eof
        /\ ClientSteps < MaxInput
        /\ eof' = eof \cup {c}
        /\ UNCHANGED <<pc, err, _nrunning_tasks, _readyq, _read_waiting,
                       _write_waiting, ready, nrset, idx, ncreated, finished,
                       lost, lastEv, lastReg, nevents, nappended, nresumed,
                       sent, gen, backlog, accepted, inbuf, outbuf, insent,
                       closed, resp, nshort>>

\* ---- the scheduler running the workload ----
\* One iteration of `while self._readyq:` in _run with the generators of the
\* workload: task.send(data), then do_schedule of the event yielded or the
\* StopIteration handler (every value these generators yield is a BaseEvent)
echo_run ==
    /\ pc = "_run"
    /\ _readyq # <<>>
    /\ LET task == Head(_readyq).task
           v == Head(_readyq).data
           step == generator_send(gen[task], v)
           spawn == step.submit # 0
           n == IF spawn THEN 1 ELSE 0
           q == IF spawn THEN add_ready(Tail(_readyq), ncreated + 1, None, 0)
                ELSE Tail(_readyq)
           event == EchoEvent(step.kind, step.g.sock, 0, step.arg)
           tables == do_schedule(event, task)
           frames == [gen EXCEPT ![task] = step.g]
       IN  /\ _readyq' = q
           /\ ncreated' = ncreated + n
           /\ gen' = IF spawn
                     THEN Append(frames, Frame("client_handler", step.submit))
                     ELSE frames
           /\ sent' = step.out
           /\ pc' = after_run(q)
           /\ IF step.out = "event"
              THEN /\ _nrunning_tasks' = _nrunning_tasks + n
                   /\ _read_waiting' = tables[1]
                   /\ _write_waiting' = tables[2]
                   /\ lost' = lost \cup (Waiter(Direction(event), event.fd) \ {task})
                   /\ UNCHANGED <<finished, closed>>
              ELSE /\ Caught(step.out)
                   /\ _nrunning_tasks' = task_done(_nrunning_tasks + n)
                   /\ finished' = finished \cup {task}
                   /\ closed' = closed \cup {step.g.sock}
                   /\ UNCHANGED <<_read_waiting, _write_waiting, lost>>
           /\ resp' = IF gen[task].at = "send"
                      THEN [resp EXCEPT ![task].sum = @ + v.val,
                                        ![task].writes = @ + 1]
                      ELSE IF step.kind = "Send"
                      THEN [resp EXCEPT ![task] =
                               [buf |-> step.arg, sum |-> 0, writes |-> 0]]
                      ELSE resp
    /\ UNCHANGED <<err, ready, nrset, idx, lastEv, lastReg, nevents, nappended,
                   nresumed, backlog, accepted, inbuf, outbuf, insent, eof,
                   nshort>>

\* whether select finds descriptor f readable: a connection is queued on the
\* listening socket, or bytes or the end of the stream are there to be read
Readable(f) ==
    IF f = ListenFd THEN backlog # <<>> ELSE inbuf[f] # <<>> \/ f \in eof

\* select.select(self._read_waiting, self._write_waiting, []) returning: the
\* readable keys of the read table and the keys of the write table (a
\* connection accepts at least one byte), each list in any order
echo_select ==
    /\ pc = "select"
    /\ LET rs == {f \in DOMAIN _read_waiting : Readable(f)}
           ws == DOMAIN _write_waiting
       IN  /\ rs \cup ws # {}
           /\ \E rl \in Perms(rs), wl \in Perms(ws) :
                /\ ready' = rl \o wl
                /\ nrset' = Len(rl)
    /\ idx' = 1
    /\ pc' = "for"
    /\ UNCHANGED <<err, _nrunning_tasks, _readyq, _read_waiting, _write_waiting,
                   ncreated, finished, lost, lastEv, lastReg, nevents,
                   nappended, nresumed, sent>>
    /\ UNCHANGED workload

\* One iteration of `for i, fileno in enumerate(rset+wset):` with the sockets
\* of the workload: which.pop(fileno), then happen_so_smooth of the event:
\* accept() takes the oldest queued connection, recv(nbytes) the first bytes
\* received, send(data) writes the first n >= 1 bytes of data
echo_for_body ==
    /\ pc = "for"
    /\ idx <= Len(ready)
    /\ LET fileno == ready[idx]
           d == Which(idx, nrset)
           which == IF d = "r" THEN _read_waiting ELSE _write_waiting
       IN  IF fileno \notin DOMAIN which
           THEN \* which.pop(fileno) raises KeyError
                /\ pc' = "raised"
                /\ err' = "KeyError"
                /\ UNCHANGED <<_readyq, _read_waiting, _write_waiting, ready,
                               nrset, idx, backlog, accepted, inbuf, outbuf,
                               nshort>>
           ELSE LET event == which[fileno].event
                    task == which[fileno].task
                    sock == event.fd
                IN  /\ _read_waiting' = IF d = "r" THEN Pop(which, fileno)
                                        ELSE _read_waiting
                    /\ _write_waiting' = IF d = "w" THEN Pop(which, fileno)
                                         ELSE _write_waiting
                    /\ \E n \in 1..(IF event.kind = "Send" THEN Len(event.arg) ELSE 1) :
                        LET got == SubSeq(inbuf[sock], 1, event.arg)
                            val == CASE event.kind = "Connect" -> Head(backlog)
                                     [] event.kind = "Receive" ->
                                            IF Len(inbuf[sock]) <= event.arg
                                            THEN inbuf[sock] ELSE got
                                     [] OTHER -> n
                            short == event.kind = "Send" /\ n < Len(event.arg)
                        IN  /\ short => nshort < MaxShort
                            /\ nshort' = IF short THEN nshort + 1 ELSE nshort
                            /\ _readyq' = add_ready(_readyq, task,
                                                    EchoResult(event, val), 0)
                            /\ backlog' = IF event.kind = "Connect"
                                          THEN Tail(backlog) ELSE backlog
                            /\ accepted' = IF event.kind = "Connect"
                                           THEN accepted \cup {Head(backlog)}
                                           ELSE accepted
                            /\ inbuf' = IF event.kind = "Receive"
                                        THEN [inbuf EXCEPT ![sock] =
                                                 SubSeq(@, Len(val) + 1, Len(@))]
                                        ELSE inbuf
                            /\ outbuf' = IF event.kind = "Send"
                                         THEN [outbuf EXCEPT ![sock] =
                                                  @ \o SubSeq(event.arg, 1, n)]
                                         ELSE outbuf
                    /\ err' = err
                    /\ IF idx = Len(ready)
                       THEN /\ pc' = "while"
                            /\ ready' = <<>>
                            /\ nrset' = 0
                            /\ idx' = 0
                       ELSE /\ pc' = "for"
                            /\ idx' = idx + 1
                            /\ UNCHANGED <<ready, nrset>>
    /\ UNCHANGED <<_nrunning_tasks, ncreated, finished, lost, lastEv, lastReg,
                   nevents, nappended, nresumed, sent, gen, insent, eof, closed,
                   resp>>

NextEcho ==
    \/ echo_main
    \/ run_while
    \/ echo_run
    \/ echo_select
    \/ echo_for_body
    \/ client_connect
    \/ client_send
    \/ client_close

SpecEcho == InitEcho /\ [][NextEcho]_vars

\* run() is one thread that never pauses by itself: each of its steps is
\* taken once it can be; select returns once a descriptor it waits for is
\* ready, and a descriptor to write to is always ready.  Clients are free.
SpecEchoFair ==
    /\ SpecEcho
    /\ WF_vars(run_while \/ echo_run \/ echo_select \/ echo_for_body)

\* ---- helpers of the workload properties ----
Handlers == {t \in 1..Len(gen) : gen[t].fn = "client_handler"}

\* the entry under which task t waits in tbl, as a set
EntriesOf(tbl, t) == {tbl[f] : f \in {k \in DOMAIN tbl : tbl[k].task = t}}

\* the step resumes a client_handler that is suspended inside readline
InReadline ==
    /\ pc = "_run"
    /\ _readyq # <<>>
    /\ Head(_readyq).task \in Handlers
    /\ gen[Head(_readyq).task].at = "recv"

\* ---- C11 ----
\* A resumption of a handler suspended in readline, with the byte(s) c
C11_DelegationStep ==
    InReadline =>
        LET t == Head(_readyq).task
            c == Head(_readyq).data.val
            V == join(gen[t].chars) \o c
            done == c = <<>> \/ c = <<"\n">>
        IN  /\ ~done =>
                \* c went to readline, whose next event is the task's event
                /\ gen'[t].chars = Append(gen[t].chars, c)
                /\ gen'[t].at = "recv"
                /\ EntriesOf(_read_waiting', t) =
                      {[event |-> EchoEvent("Receive", gen[t].sock, 0, 1), task |-> t]}
                /\ sent' = "event"
                /\ _nrunning_tasks' = _nrunning_tasks
                /\ finished' = finished
            /\ (done /\ V # <<>>) =>
                \* readline returned V: the handler goes on with V, the
                \* scheduler sees the handler's next event and no completion
                /\ gen'[t].at = "send"
                /\ gen'[t].line = Prefix \o V
                /\ EntriesOf(_write_waiting', t) =
                      {[event |-> EchoEvent("Send", gen[t].sock, 0, Prefix \o V),
                        task |-> t]}
                /\ sent' = "event"
                /\ _nrunning_tasks' = _nrunning_tasks
                /\ finished' = finished
            /\ (done /\ V = <<>>) =>
                \* the only completion the scheduler sees is the handler's own
                /\ finished' = finished \cup {t}
                /\ _nrunning_tasks' = _nrunning_tasks - 1

\* C11: every event readline yields is registered under the handler task as
\* if the handler had yielded it, every resumption value reaches readline,
\* and when readline returns V the handler continues with exactly V while the
\* scheduler sees no completion and the task count stays (the count drops,
\* by 1, only when the handler itself then returns).
C11_DelegationTransparent == [][C11_DelegationStep]_vars

\* readline returned the two bytes it was sent one by one; nothing completed
C11_Witness ==
    /\ 2 \in Handlers
    /\ gen[2].at = "send"
    /\ gen[2].line = Prefix \o <<"x", "\n">>
    /\ finished = {}
    /\ _nrunning_tasks = 2

\* ---- C13 ----
\* A resumption of a handler suspended in readline with b''
C13_PeerCloseStep ==
    (InReadline /\ Head(_readyq).data.val = <<>>) =>
        LET t == Head(_readyq).task
            V == join(gen[t].chars)
        IN  IF V = <<>>
            THEN /\ sent' = "StopIteration"
                 /\ gen'[t].at = "returned"
                 /\ closed' = closed \cup {gen[t].sock}
                 /\ finished' = finished \cup {t}
                 /\ _nrunning_tasks' = _nrunning_tasks - 1
                 /\ _read_waiting' = _read_waiting
                 /\ _write_waiting' = _write_waiting
            ELSE /\ gen'[t].line = Prefix \o V
                 /\ gen'[t].at = "send"
                 /\ finished' = finished

\* C13: when a Receive completes with b'', readline returns exactly the bytes
\* accumulated in the current line; if that is empty the handler yields no
\* further event, closes its socket and completes, the task count going down
\* by exactly 1.
C13_PeerCloseEndsSession == [][C13_PeerCloseStep]_vars

\* a client left in the middle of a line: the partial line was answered and
\* the session then ended, the accept loop going on alone
C13_Witness ==
    /\ outbuf[1] = Prefix \o <<"x">>
    /\ 2 \in finished
    /\ 1 \in closed
    /\ _nrunning_tasks = 1
    /\ pc = "select"

\* ---- C15 ----
\* run() waits in select and no client has connected
C15_NoClient == pc = "select" /\ backlog = <<>> /\ accepted = {}

C15_BlockedStep ==
    C15_NoClient =>
        /\ _nrunning_tasks = 1
        /\ _readyq = <<>>
        /\ _write_waiting = EmptyTable
        /\ DOMAIN _read_waiting = {ListenFd}
        /\ _read_waiting[ListenFd].task = 1
        /\ _read_waiting[ListenFd].event.kind = "Connect"
        /\ gen[1].at = "accept"
        /\ UNCHANGED <<pc, _nrunning_tasks, _readyq, _read_waiting,
                       _write_waiting, gen, sent>>

\* C15: with the accept loop submitted and no client connecting, run() has
\* primed the task and registered its Accept on the listening descriptor in
\* the read table, and stays in select: the task count stays 1, the ready
\* queue empty and no task is resumed until a connection arrives.
C15_BlocksWithoutClient == [][C15_BlockedStep]_vars

\* run() waits in select, the only task primed and registered
C15_Witness ==
    /\ C15_NoClient
    /\ sent = "event"
    /\ ncreated = 1
    /\ ListenFd \in DOMAIN _read_waiting

\* ---- C12 ----
\* the places of task t in the ready queue
Queued(t) == {k \in 1..Len(_readyq) : _readyq[k].task = t}

\* the byte count of a completed send that t has not been resumed with yet
PendingN(t) ==
    IF gen[t].at = "send" /\ Queued(t) # {}
    THEN _readyq[CHOOSE k \in Queued(t) : TRUE].data.val ELSE 0

Sending(t) == t \in Handlers /\ gen[t].at = "send"

SendingDone(t) ==
    /\ t \in Handlers
    /\ gen[t].at # "send"
    /\ resp[t].sum = Len(resp[t].buf)

C12_Suffix ==
    \A t \in Handlers :
        LET L == Len(resp[t].buf)
        IN  IF gen[t].at = "send"
            THEN \* the handler holds the suffix nothing was reported for yet
                 /\ resp[t].sum < L
                 /\ gen[t].line = SubSeq(resp[t].buf, resp[t].sum + 1, L)
                 \* and waits with a Send of exactly that suffix
                 /\ Queued(t) = {} =>
                       EntriesOf(_write_waiting, t) =
                          {[event |-> EchoEvent("Send", gen[t].sock, 0, gen[t].line),
                            task |-> t]}
                 /\ PendingN(t) \in 0..Len(gen[t].line)
                 /\ Queued(t) # {} => PendingN(t) >= 1
            ELSE resp[t].sum = L

\* C12: while a response of length L is being sent the handler yields, after
\* each completion, a Send of exactly the suffix not written yet; given that
\* the scheduler keeps running (the socket is always writable and each send
\* writes at least one byte) it stops sending, and then the sum of the byte
\* counts reported equals L, short writes included.
C12_SendCompleteness ==
    /\ []C12_Suffix
    /\ \A t \in EchoTasks \ {1} : Sending(t) ~> SendingDone(t)

\* a response went through in two sends, the first of them short
C12_Witness ==
    \E t \in Handlers :
        /\ gen[t].at = "recv"
        /\ resp[t].writes = 2
        /\ resp[t].sum = Len(resp[t].buf)
        /\ resp[t].buf = Prefix \o <<"\n">>

\* ---- C14 ----
AtOrder ==
    {<<"start", "recv">>, <<"recv", "recv">>, <<"recv", "send">>,
     <<"recv", "returned">>, <<"send", "send">>, <<"send", "recv">>}

\* tasks and connections are paired one to one
C14_OwnSocket ==
    /\ \A t \in Handlers : gen[t].sock \in accepted
    /\ \A t, u \in Handlers : t # u => gen[t].sock # gen[u].sock
    /\ \A c \in accepted :
          \/ \E t \in Handlers : gen[t].sock = c
          \* accept() has returned c and echo_server was not resumed yet
          \/ \E k \in 1..Len(_readyq) :
                _readyq[k].data.kind = "conn" /\ _readyq[k].data.val = c
    /\ \A f \in DOMAIN _read_waiting :
          gen[_read_waiting[f].task].sock = f /\ _read_waiting[f].event.fd = f
    /\ \A f \in DOMAIN _write_waiting :
          gen[_write_waiting[f].task].sock = f /\ _write_waiting[f].event.fd = f

\* a task is resumed: it takes its own next step, with the kind of value the
\* event it waited for produces, and no other task moves
C14_ResumeStep ==
    (pc = "_run" /\ _readyq # <<>>) =>
        LET t == Head(_readyq).task
            v == Head(_readyq).data
        IN  /\ \A u \in 1..Len(gen) : u # t => gen'[u] = gen[u]
            /\ t \in Handlers =>
                /\ <<gen[t].at, gen'[t].at>> \in AtOrder
                /\ gen'[t].sock = gen[t].sock
                /\ gen[t].at = "start" => v = None
                /\ gen[t].at = "recv" => v.kind = "bytes"
                /\ gen[t].at = "send" => v.kind = "nbytes"

\* a descriptor is served: the value goes to the task of that connection and
\* comes from that connection, the other connections are left alone
C14_CompleteStep ==
    (pc = "for" /\ err' = "") =>
        LET f == ready[idx]
            e == _readyq'[Len(_readyq')]
        IN  /\ Len(_readyq') = Len(_readyq) + 1
            /\ gen[e.task].sock = f
            /\ \A c \in Clients \ {f} :
                  inbuf'[c] = inbuf[c] /\ outbuf'[c] = outbuf[c]
            /\ e.data.kind = "bytes" =>
                  /\ e.data.val \o inbuf'[f] = inbuf[f]
                  /\ outbuf'[f] = outbuf[f]
            /\ e.data.kind = "nbytes" =>
                  /\ outbuf'[f] = outbuf[f] \o SubSeq(gen[e.task].line, 1, e.data.val)
                  /\ inbuf'[f] = inbuf[f]

\* C14: every connection has a handler task of its own; whatever the order
\* in which select lists the descriptors, a task's resumptions follow its own
\* program order and carry only bytes and results of its own connection.
C14_IndependentClients ==
    [][C14_OwnSocket /\ C14_ResumeStep /\ C14_CompleteStep]_vars

\* the byte of the second client is on its way to its handler while the byte
\* of the first client, listed later by select, has not been read
C14_Witness ==
    /\ Handlers = {2, 3}
    /\ pc = "for"
    /\ Queued(3) # {}
    /\ inbuf[2] = <<>>
    /\ insent[2] # <<>>
    /\ inbuf[1] # <<>>
    /\ gen[2].at = "recv"
    /\ gen[2].chars = <<>>
    /\ 1 \in DOMAIN _read_waiting

\* ---- C16 ----
\* the bytes the peer sent that recv has handed out
Consumed(f) == SubSeq(insent[f], 1, Len(insent[f]) - Len(inbuf[f]))

\* of these, the bytes the handler t has been resumed with
Seen(t) ==
    LET all == Consumed(gen[t].sock)
        k == IF gen[t].at = "recv" /\ Queued(t) # {}
             THEN Len(_readyq[CHOOSE j \in Queued(t) : TRUE].data.val) ELSE 0
    IN  SubSeq(all, 1, Len(all) - k)

\* bytes cut after every terminator; cur is the line being collected
RECURSIVE SplitLines(_, _)
SplitLines(bytes, cur) ==
    IF bytes = <<>> THEN (IF cur = <<>> THEN <<>> ELSE <<cur>>)
    ELSE IF Head(bytes) = "\n"
    THEN <<Append(cur, "\n")>> \o SplitLines(Tail(bytes), <<>>)
    ELSE SplitLines(Tail(bytes), Append(cur, Head(bytes)))

Lines(bytes) == SplitLines(bytes, <<>>)

Complete(l) == l # <<>> /\ l[Len(l)] = "\n"

\* the unterminated bytes at the end
Partial(bytes) ==
    LET ls == Lines(bytes)
    IN  IF ls # <<>> /\ ~Complete(ls[Len(ls)]) THEN ls[Len(ls)] ELSE <<>>

\* the terminated lines
WholeLines(bytes) ==
    LET ls == Lines(bytes)
    IN  IF ls # <<>> /\ ~Complete(ls[Len(ls)]) THEN SubSeq(ls, 1, Len(ls) - 1)
        ELSE ls

\* b'Get: ' + line, for each line in turn
RECURSIVE Answers(_)
Answers(ls) == IF ls = <<>> THEN <<>> ELSE Prefix \o Head(ls) \o Answers(Tail(ls))

C16_Handler(t) ==
    LET f == gen[t].sock
        seen == Seen(t)
        ls == Lines(seen)
    IN  CASE gen[t].at = "start" -> outbuf[f] = <<>> /\ seen = <<>>
          [] gen[t].at = "send" ->
                \* readline returned the last line, and nothing was read since
                /\ seen = Consumed(f)
                /\ ls # <<>>
                /\ Complete(ls[Len(ls)]) \/ f \in eof
                /\ resp[t].buf = Prefix \o ls[Len(ls)]
                /\ outbuf[f] \o Slice(gen[t].line, PendingN(t)) = Answers(ls)
          [] OTHER ->
                \* every line read to its end has been answered in full
                \/ /\ join(gen[t].chars) = Partial(seen)
                   /\ outbuf[f] = Answers(WholeLines(seen))
                \* as has the unterminated line a leaving peer left behind
                \/ /\ gen[t].chars = <<>>
                   /\ f \in eof
                   /\ outbuf[f] = Answers(ls)

\* C16: readline returns each line up to and including its first terminator,
\* the handler goes on with exactly that line, and what its sends write is
\* b'Get: ' followed by the line, all of it before a byte of the next line is
\* read: the bytes written to a connection are at any time the answers to the
\* lines read from it.
C16_EchoLine == \A t \in Handlers : C16_Handler(t)

\* b'x\n' was read and b'Get: x\n' written
C16_Witness ==
    /\ 2 \in Handlers
    /\ gen[2].at = "recv"
    /\ Seen(2) = <<"x", "\n">>
    /\ outbuf[1] = Prefix \o <<"x", "\n">>

====
